---- MODULE Spec2Model ----
(***************************************************************************)
(* A model of app.py: the research pipeline of main(), the citation        *)
(* splitter of generate_evidence(), the pydantic models                    *)
(* ContactInformation / CompanyInformation with their validators, and      *)
(* format_company_data_as_dict().                                          *)
(*                                                                         *)
(* A Python str is a sequence of one-character strings.  A Python value    *)
(* is a record [t, s, l]: t is its type ("str", "none", "date", "list",    *)
(* "absent" for a keyword that is not supplied), s its characters and l    *)
(* its items when it is a list of strings.                                 *)
(***************************************************************************)
EXTENDS Integers, Sequences, FiniteSets, TLC

VARIABLES
    pc,            \* the stage main() is at
    pydantic_v2,   \* whether the installed pydantic is version 2 (not pinned)
    company_name,  \* st.text_input: the company name
    country,       \* st.text_input: the country
    query,         \* the query main() builds
    stages,        \* the stages entered so far, in order
    calls,         \* how often the researcher and the extractor were called
    raised,        \* the stages in which an exception was raised
    report,        \* what researcher.write_report() returned
    main_text,     \* generate_evidence's first result
    references,    \* generate_evidence's second result
    extract_arg,   \* the text given to structured_llm.invoke
    draft,         \* the field values the extractor answered with
    result,        \* what final_output_generation returned
    data_dict,     \* what format_company_data_as_dict returned
    shown_table,   \* the table given to st.table
    shown_refs,    \* the text given to st.markdown
    notices,       \* the st.error / st.warning notices, in order
    escaped        \* an exception reached main()'s own except branch

vars == <<pc, pydantic_v2, company_name, country, query, stages, calls,
          raised, report, main_text, references, extract_arg, draft, result,
          data_dict, shown_table, shown_refs, notices, escaped>>

(***************************************************************************)
(* Bounds of the model.                                                    *)
(***************************************************************************)
MaxFrags == 4
MaxEdits == 2

(***************************************************************************)
(* Python values.                                                          *)
(***************************************************************************)
Str(s) == [t |-> "str", s |-> s, l |-> <<>>]
None == [t |-> "none", s |-> <<>>, l |-> <<>>]
Absent == [t |-> "absent", s |-> <<>>, l |-> <<>>]
List(l) == [t |-> "list", s |-> <<>>, l |-> l]
\* date(1900, 1, 1)
Date1900 == [t |-> "date", s |-> <<"1","9","0","0","-","0","1","-","0","1">>, l |-> <<>>]

Min(S) == CHOOSE x \in S : \A y \in S : x <= y
Max(S) == CHOOSE x \in S : \A y \in S : x >= y

(***************************************************************************)
(* String literals of the program.                                         *)
(***************************************************************************)
Sentinel == <<"I","n","f","o","r","m","a","t","i","o","n"," ","n","o","t"," ",
              "a","v","a","i","l","a","b","l","e">>
NoReferences == <<"N","o"," ","r","e","f","e","r","e","n","c","e","s"," ",
                  "a","v","a","i","l","a","b","l","e"," ","d","u","e"," ",
                  "t","o"," ","e","r","r","o","r">>
RefMarker == <<"#","#"," ","R","e","f","e","r","e","n","c","e","s">>
ConclusionMarker == <<"#","#"," ","C","o","n","c","l","u","s","i","o","n">>
Http == <<"h","t","t","p",":","/","/">>
Https == <<"h","t","t","p","s",":","/","/">>
NoneText == <<"N","o","n","e">>

(***************************************************************************)
(* str methods.                                                            *)
(***************************************************************************)
Letters == {"a","b","c","d","e","f","g","h","i","j","k","l","m","n","o","p",
            "q","r","s","t","u","v","w","x","y","z","A","B","C","D","E","F",
            "G","H","I","J","K","L","M","N","O","P","Q","R","S","T","U","V",
            "W","X","Y","Z"}
Digits == {"0","1","2","3","4","5","6","7","8","9"}
IsAlnum(c) == c \in Letters \cup Digits
IsWord(c) == IsAlnum(c) \/ c = "_"
IsSpace(c) == c \in {" ", "\n", "\t"}

\* s[i:]
From(s, i) == SubSeq(s, i, Len(s))

\* s.startswith(lit, i-1)
StartsWithAt(s, i, lit) ==
    /\ i >= 1
    /\ i + Len(lit) - 1 <= Len(s)
    /\ SubSeq(s, i, i + Len(lit) - 1) = lit

\* s.find(lit, i-1) + 1: the first occurrence at or after i, 0 when there is none
Find(s, lit, i) ==
    LET hits == {k \in i..Len(s) : StartsWithAt(s, k, lit)}
    IN IF hits = {} THEN 0 ELSE Min(hits)

\* lit in s
Contains(s, lit) == Find(s, lit, 1) # 0

\* s.strip()
Strip(s) ==
    LET solid == {k \in 1..Len(s) : ~IsSpace(s[k])}
    IN IF solid = {} THEN <<>> ELSE SubSeq(s, Min(solid), Max(solid))

\* s.split(sep): every occurrence of sep cuts
RECURSIVE Split(_, _)
Split(s, sep) ==
    LET k == Find(s, sep, 1)
    IN IF k = 0 THEN <<s>>
       ELSE <<SubSeq(s, 1, k - 1)>> \o Split(From(s, k + Len(sep)), sep)

\* sep.join(parts)
RECURSIVE Join(_, _)
Join(parts, sep) ==
    IF parts = <<>> THEN <<>>
    ELSE IF Len(parts) = 1 THEN parts[1]
    ELSE parts[1] \o sep \o Join(Tail(parts), sep)

\* s.replace(")", "")
IsNotClose(c) == c # ")"
RemoveClose(s) == SelectSeq(s, IsNotClose)

(***************************************************************************)
(* citation_pattern = r"\[(.*?)\]\((https?://\S+)\)"                       *)
(***************************************************************************)
\* https?:// at p: the index after the scheme, 0 when it does not match
SchemeEnd(s, p) ==
    IF StartsWithAt(s, p, Https) THEN p + Len(Https)
    ELSE IF StartsWithAt(s, p, Http) THEN p + Len(Http)
    ELSE 0

\* \S+\) from q, greedy: the index of the closing ")", 0 when it does not match.
UrlClose(s, q) ==
    LET spaces == {k \in q..Len(s) : IsSpace(s[k])}
        runEnd == IF spaces = {} THEN Len(s) ELSE Min(spaces) - 1
        closes == {e \in (q + 1)..runEnd : s[e] = ")"}
    IN IF closes = {} THEN 0 ELSE Max(closes)

\* \]\((https?://\S+)\) at j: the index of the closing ")", 0 when no match
TailClose(s, j) ==
    IF StartsWithAt(s, j, <<"]", "(">>) /\ SchemeEnd(s, j + 2) # 0
    THEN UrlClose(s, SchemeEnd(s, j + 2))
    ELSE 0

\* The match of the pattern starting at i: [at, close, end] with close the
\* index of the label's "]" (the lazy .*? stops at the first one from which the
\* rest matches, and never crosses a newline); end = 0 when there is no match.
MatchAt(s, i) ==
    IF i > Len(s) \/ s[i] # "[" THEN [at |-> i, close |-> 0, end |-> 0]
    ELSE LET newlines == {k \in (i + 1)..Len(s) : s[k] = "\n"}
             limit == IF newlines = {} THEN Len(s) ELSE Min(newlines)
             js == {j \in (i + 1)..limit : TailClose(s, j) # 0}
         IN IF js = {} THEN [at |-> i, close |-> 0, end |-> 0]
            ELSE [at |-> i, close |-> Min(js), end |-> TailClose(s, Min(js))]

\* The non-overlapping matches from position i on, left to right
RECURSIVE Matches(_, _)
Matches(s, i) ==
    IF i > Len(s) THEN <<>>
    ELSE LET m == MatchAt(s, i)
         IN IF m.end = 0 THEN Matches(s, i + 1)
            ELSE <<m>> \o Matches(s, m.end + 1)

\* re.findall(citation_pattern, s): the (label, url) groups of each match
FindAll(s) ==
    LET ms == Matches(s, 1)
    IN [k \in 1..Len(ms) |->
           [source |-> SubSeq(s, ms[k].at + 1, ms[k].close - 1),
            url |-> SubSeq(s, ms[k].close + 2, ms[k].end - 1)]]

\* re.sub(citation_pattern, "", s): the text outside the matches
RECURSIVE SubFrom(_, _)
SubFrom(s, i) ==
    IF i > Len(s) THEN <<>>
    ELSE LET m == MatchAt(s, i)
         IN IF m.end = 0 THEN <<s[i]>> \o SubFrom(s, i + 1)
            ELSE SubFrom(s, m.end + 1)

\* re.sub with count=1: only the first match is removed
ReSubFirstOnly(s) ==
    LET ms == Matches(s, 1)
    IN IF ms = <<>> THEN s
       ELSE SubSeq(s, 1, ms[1].at - 1) \o From(s, ms[1].end + 1)

ReSub(s) == SubFrom(s, 1)

\* f"- {source.strip()} {url.strip().replace(')', '')}"
ReferenceLine(c) == <<"-", " ">> \o Strip(c.source) \o <<" ">> \o RemoveClose(Strip(c.url))

CitationLines(cs) == [k \in 1..Len(cs) |-> ReferenceLine(cs[k])]

\* The body of generate_evidence's try block after the report is written
WorkingNarrative(rep) ==
    LET split_text == Split(rep, RefMarker)
        head == Strip(split_text[1])
    IN IF Contains(head, ConclusionMarker)
       THEN Strip(Split(head, ConclusionMarker)[1])
       ELSE head

SplitReport(rep) ==
    LET split_text == Split(rep, RefMarker)
        narrative == WorkingNarrative(rep)
        citations == FindAll(narrative)
        refs == Join(CitationLines(citations), <<"\n">>)
    IN [main_text |-> Strip(ReSub(narrative)),
        references |-> IF Len(split_text) > 1
                       THEN refs \o <<"\n">> \o Strip(split_text[2])
                       ELSE refs]

(***************************************************************************)
(* The reports the researcher may write: up to MaxFrags pieces, each a     *)
(* citation, a marker, or a character citations and markers are made of.   *)
(***************************************************************************)
Cite1 == <<"[","a","]","(","h","t","t","p",":","/","/","u",")">>
Cite2 == <<"["," ","b","]","(","h","t","t","p","s",":","/","/","v",")">>
HalfCite == <<"]","(","h","t","t","p",":","/","/","u",")">>
Fragments == {Cite1, Cite2, HalfCite, RefMarker, ConclusionMarker,
              <<" ">>, <<"\n">>, <<"x">>, <<"[">>, <<")">>}

RECURSIVE Reports(_)
Reports(k) ==
    IF k = 0 THEN {<<>>}
    ELSE LET shorter == Reports(k - 1)
         IN shorter \cup {r \o f : r \in shorter, f \in Fragments}

(***************************************************************************)
(* ContactInformation and CompanyInformation.  Keyword arguments (and the  *)
(* extractor's draft) are a record of values, one per field, with the      *)
(* three contact fields flattened beside the others.                       *)
(***************************************************************************)
TextFields == {"primary_address", "legal_form", "country", "town",
               "registration_date", "general_details", "last_reported_revenue"}
OptionalFields == {"ubo", "subsidiaries", "parent_company"}
ContactFields == {"email", "phone", "website"}
AllFields == TextFields \cup OptionalFields \cup ContactFields
                 \cup {"registration_number", "directors_shareholders"}

\* A field declared str = Field(...): the keyword is required and must be a str
StrFieldOK(v) == v.t = "str"

\* A field declared Optional[str] = Field(None): a str, None, or not supplied
OptionalFieldOK(v) == v.t \in {"str", "none", "absent"}

\* The value of an Optional[str] field that has no validator
OptionalValue(v) == IF v.t = "str" THEN v ELSE None

\* Whether pydantic calls a field's validator: never for a keyword that is
\* not supplied (the default is not validated), always for a str, and for an
\* explicit None only from pydantic 2 on (pydantic 1 returns None at once).
RunsValidator(v, v2) == v.t = "str" \/ (v.t = "none" /\ v2)

\* ContactInformation.validate_email
validate_email(v) ==
    IF v.t = "none" \/ Strip(v.s) = <<>> THEN None
    ELSE IF Contains(v.s, <<"@">>) /\ Contains(v.s, <<".">>) THEN v
    ELSE None

\* ContactInformation.validate_website
validate_website(v) ==
    IF v.t = "none" \/ Strip(v.s) = <<>> THEN None
    ELSE IF Contains(v.s, Http) \/ Contains(v.s, Https) THEN v
    ELSE None

\* CompanyInformation.validate_registration_number
validate_registration_number(v) ==
    IF v.t = "none" \/ Strip(v.s) = <<>> THEN Str(Sentinel)
    ELSE LET cleaned == SelectSeq(v.s, IsAlnum)
         IN IF cleaned # <<>> THEN Str(cleaned) ELSE Str(Sentinel)

\* re.split(r"[,;]|\band\b", s)
IsAndAt(s, i) ==
    /\ StartsWithAt(s, i, <<"a", "n", "d">>)
    /\ (i = 1 \/ ~IsWord(s[i - 1]))
    /\ (i + 3 > Len(s) \/ ~IsWord(s[i + 3]))

RECURSIVE ReSplitDirectors(_, _, _)
ReSplitDirectors(s, i, from) ==
    IF i > Len(s) THEN <<SubSeq(s, from, Len(s))>>
    ELSE IF s[i] \in {",", ";"}
         THEN <<SubSeq(s, from, i - 1)>> \o ReSplitDirectors(s, i + 1, i + 1)
    ELSE IF IsAndAt(s, i)
         THEN <<SubSeq(s, from, i - 1)>> \o ReSplitDirectors(s, i + 3, i + 3)
    ELSE ReSplitDirectors(s, i + 1, from)

\* [d.strip() for d in parts if d.strip()]
RECURSIVE StripAll(_)
StripAll(parts) ==
    IF parts = <<>> THEN <<>>
    ELSE IF Strip(parts[1]) = <<>> THEN StripAll(Tail(parts))
    ELSE <<Strip(parts[1])>> \o StripAll(Tail(parts))

\* CompanyInformation.parse_directors (pre=True)
parse_directors(v) ==
    IF v.t = "list" THEN v
    ELSE IF v.t = "str"
         THEN LET directors == StripAll(ReSplitDirectors(v.s, 1, 1))
              IN IF directors # <<>> THEN List(directors) ELSE List(<<Sentinel>>)
    ELSE List(<<Sentinel>>)

\* ContactInformation(**kw)
ContactInformation(kw, v2) ==
    [email |-> IF RunsValidator(kw.email, v2) THEN validate_email(kw.email) ELSE None,
     phone |-> OptionalValue(kw.phone),
     website |-> IF RunsValidator(kw.website, v2) THEN validate_website(kw.website)
                 ELSE None]

\* Whether CompanyInformation(**kw) validates, that is, raises no ValidationError
Validates(kw, v2) ==
    /\ \A f \in TextFields : StrFieldOK(kw[f])
    /\ \A f \in OptionalFields \cup ContactFields \cup {"registration_number"} :
           OptionalFieldOK(kw[f])
    /\ kw.directors_shareholders.t # "absent"

\* CompanyInformation(**kw), when it validates
CompanyInformation(kw, v2) ==
    [primary_address |-> kw.primary_address,
     registration_number |->
         IF RunsValidator(kw.registration_number, v2)
         THEN validate_registration_number(kw.registration_number)
         ELSE None,
     legal_form |-> kw.legal_form,
     country |-> kw.country,
     town |-> kw.town,
     registration_date |-> kw.registration_date,
     contact_information |-> ContactInformation(kw, v2),
     general_details |-> kw.general_details,
     ubo |-> OptionalValue(kw.ubo),
     directors_shareholders |-> parse_directors(kw.directors_shareholders),
     subsidiaries |-> OptionalValue(kw.subsidiaries),
     parent_company |-> OptionalValue(kw.parent_company),
     last_reported_revenue |-> kw.last_reported_revenue]

\* The keyword arguments of the except branch of final_output_generation
FallbackKwargs ==
    [primary_address |-> Str(Sentinel),
     registration_number |-> Str(Sentinel),
     legal_form |-> Str(Sentinel),
     country |-> Str(Sentinel),
     town |-> Str(Sentinel),
     registration_date |-> Date1900,
     email |-> Absent,
     phone |-> Absent,
     website |-> Absent,
     general_details |-> Str(Sentinel),
     ubo |-> Absent,
     directors_shareholders |-> List(<<Sentinel>>),
     subsidiaries |-> Absent,
     parent_company |-> Absent,
     last_reported_revenue |-> Str(Sentinel)]

\* The value of `result` before final_output_generation has returned
NoResult ==
    [primary_address |-> None, registration_number |-> None, legal_form |-> None,
     country |-> None, town |-> None, registration_date |-> None,
     contact_information |-> [email |-> None, phone |-> None, website |-> None],
     general_details |-> None, ubo |-> None, directors_shareholders |-> None,
     subsidiaries |-> None, parent_company |-> None,
     last_reported_revenue |-> None]


\* sanitize_string
sanitize_string(v) ==
    IF v.t = "none" \/ v.s = <<>> THEN Sentinel
    ELSE IF Strip(v.s) # <<>> THEN Strip(v.s) ELSE Sentinel

\* str(v) of a value that is a str or None
StrOf(v) == IF v.t = "none" THEN Str(NoneText) ELSE v

FieldLabels ==
    <<"Primary Address", "Registration Number", "Legal Form", "Country", "Town",
      "Registration Date", "Email", "Phone", "Website", "General Details",
      "Directors & Shareholders", "UBO", "Subsidiaries", "Parent Company",
      "Last Reported Revenue">>

\* The try block of format_company_data_as_dict
format_company_data_as_dict(company_info) ==
    LET directors_str == Join(company_info.directors_shareholders.l, <<",", " ">>)
    IN [Fields |-> FieldLabels,
        Details |->
          <<sanitize_string(company_info.primary_address),
            sanitize_string(company_info.registration_number),
            sanitize_string(company_info.legal_form),
            sanitize_string(company_info.country),
            sanitize_string(company_info.town),
            company_info.registration_date.s,
            sanitize_string(company_info.contact_information.email),
            sanitize_string(company_info.contact_information.phone),
            sanitize_string(StrOf(company_info.contact_information.website)),
            sanitize_string(company_info.general_details),
            directors_str,
            sanitize_string(company_info.ubo),
            sanitize_string(company_info.subsidiaries),
            sanitize_string(company_info.parent_company),
            sanitize_string(company_info.last_reported_revenue)>>]

\* The except branch of format_company_data_as_dict
ErrorTable ==
    [Fields |-> <<"Error">>,
     Details |-> <<<<"F","a","i","l","e","d"," ","t","o"," ","f","o","r","m","a","t"," ","c","o","m","p","a","n","y"," ","i","n","f","o","r","m","a","t","i","o","n">>>>]

\* No table yet
NoTable == [Fields |-> <<>>, Details |-> <<>>]

(***************************************************************************)
(* The drafts the extractor may return: a well-formed draft with up to     *)
(* MaxEdits of its fields replaced by a value of the field's pool.         *)
(***************************************************************************)
BaseDraft ==
    [primary_address |-> Str(<<"1", " ", "H", "i", "g", "h">>),
     registration_number |-> Str(<<"1", "2">>),
     legal_form |-> Str(<<"L", "t", "d">>),
     country |-> Str(<<"U", "K">>),
     town |-> Str(<<"Y", "o", "r", "k">>),
     registration_date |-> Str(<<"2", "0", "0", "1">>),
     email |-> Str(<<"a", "@", "b", ".", "c">>),
     phone |-> Str(<<"1">>),
     website |-> Str(Http \o <<"a">>),
     general_details |-> Str(<<"x">>),
     ubo |-> Str(<<"y">>),
     directors_shareholders |-> List(<<<<"J">>>>),
     subsidiaries |-> Str(<<"z">>),
     parent_company |-> Str(<<"w">>),
     last_reported_revenue |-> Str(<<"9">>)]

TextPool == {Absent, None, Str(<<>>), Str(<<" ">>), Str(<<" ", "a", " ">>)}
OptionalPool == {Absent, None, Str(<<>>), Str(<<" ">>), Str(<<"a", " ">>)}
RegistrationPool ==
    {Absent, None, Str(<<>>), Str(<<"-", " ">>),
     Str(<<"R", "C", "-", "1", "2", " ", "3", "4", "5">>), Str(Sentinel)}
EmailPool ==
    {Absent, None, Str(<<" ">>), Str(<<"a", "@", "b">>), Str(<<"a", ".", "b">>),
     Str(<<" ", "a", "@", "b", ".", "c">>)}
WebsitePool ==
    {Absent, None, Str(<<" ">>), Str(<<"a">>), Str(Https \o <<"b">>),
     Str(<<"a", " ">> \o Http \o <<"b">>)}
DirectorsPool ==
    {Absent, None, List(<<>>), List(<<<<"J", "o">>, <<" ">>>>), Str(<<>>),
     Str(<<";", " ">>),
     Str(<<"J","a","n","e"," ","D","o","e",","," ","J","o","h","n"," ","S","m","i","t","h"," ","a","n","d"," ","A","c","m","e"," ","H","o","l","d","i","n","g","s">>)}

Pool(f) ==
    IF f \in TextFields THEN TextPool
    ELSE IF f = "registration_number" THEN RegistrationPool
    ELSE IF f = "email" THEN EmailPool
    ELSE IF f = "website" THEN WebsitePool
    ELSE IF f = "directors_shareholders" THEN DirectorsPool
    ELSE OptionalPool

RECURSIVE Drafts(_)
Drafts(k) ==
    IF k = 0 THEN {BaseDraft}
    ELSE LET fewer == Drafts(k - 1)
         IN fewer \cup UNION {{[d EXCEPT ![f] = v] : v \in Pool(f), d \in fewer} :
                                f \in AllFields}

(***************************************************************************)
(* main(): one click of "Fetch Details", stage by stage.                   *)
(***************************************************************************)
NoQuery == [template |-> "none", company_name |-> <<>>, country |-> <<>>]

\* The inputs of the whole pipeline are kept small: the splitter and the
\* record model have specifications of their own with larger inputs.
PipelineReports == {Str(r) : r \in Reports(1)} \cup {None}
PipelineDrafts == Drafts(1)

\* State shared by every specification before the button is pressed
Fresh ==
    /\ query = NoQuery
    /\ stages = <<>>
    /\ calls = [research |-> 0, extract |-> 0]
    /\ raised = {}
    /\ report = None
    /\ main_text = <<>>
    /\ references = <<>>
    /\ extract_arg = None
    /\ draft = BaseDraft
    /\ result = NoResult
    /\ data_dict = NoTable
    /\ shown_table = NoTable
    /\ shown_refs = None
    /\ notices = <<>>
    /\ escaped = FALSE

Init ==
    /\ pc = "Idle"
    /\ pydantic_v2 \in BOOLEAN
    /\ company_name \in {<<>>, <<"A", "c", "m", "e">>}
    /\ country \in {<<>>, <<" ">>, <<"U", "K">>}
    /\ Fresh

\* if st.button(...): if not company_name: st.warning(...); return
FetchWithoutName ==
    /\ pc = "Idle"
    /\ company_name = <<>>
    /\ pc' = "Rejected"
    /\ notices' = Append(notices, "warning: enter a company name")
    /\ UNCHANGED <<pydantic_v2, company_name, country, query, stages, calls,
                   raised, report, main_text, references, extract_arg, draft,
                   result, data_dict, shown_table, shown_refs, escaped>>

\* The query is built from one of the two templates
Fetch ==
    /\ pc = "Idle"
    /\ company_name # <<>>
    /\ query' = [template |-> IF Strip(country) # <<>> THEN "with_country"
                              ELSE "without_country",
                 company_name |-> company_name,
                 country |-> country]
    /\ pc' = "Querying"
    /\ stages' = Append(stages, "Querying")
    /\ UNCHANGED <<pydantic_v2, company_name, country, calls, raised, report,
                   main_text, references, extract_arg, draft, result, data_dict,
                   shown_table, shown_refs, notices, escaped>>

\* The except branch of generate_evidence
EvidenceHandler ==
    /\ notices' = Append(notices, "error: research")
    /\ main_text' = <<>>
    /\ references' = NoReferences
    /\ pc' = "Extracting"
    /\ stages' = Append(stages, "Extracting")

\* researcher.conduct_research(); report = researcher.write_report()
QueryingReturns ==
    /\ pc = "Querying"
    /\ \E r \in PipelineReports : report' = r
    /\ calls' = [calls EXCEPT !.research = @ + 1]
    /\ pc' = "Splitting"
    /\ stages' = Append(stages, "Splitting")
    /\ UNCHANGED <<pydantic_v2, company_name, country, query, raised, main_text,
                   references, extract_arg, draft, result, data_dict,
                   shown_table, shown_refs, notices, escaped>>

QueryingRaises ==
    /\ pc = "Querying"
    /\ calls' = [calls EXCEPT !.research = @ + 1]
    /\ raised' = raised \cup {"Querying"}
    /\ EvidenceHandler
    /\ UNCHANGED <<pydantic_v2, company_name, country, query, report,
                   extract_arg, draft, result, data_dict, shown_table,
                   shown_refs, escaped>>

\* The rest of generate_evidence's try block
Splitting ==
    /\ pc = "Splitting"
    /\ report.t = "str"
    /\ main_text' = SplitReport(report.s).main_text
    /\ references' = SplitReport(report.s).references
    /\ pc' = "Extracting"
    /\ stages' = Append(stages, "Extracting")
    /\ UNCHANGED <<pydantic_v2, company_name, country, query, calls, raised,
                   report, extract_arg, draft, result, data_dict, shown_table,
                   shown_refs, notices, escaped>>

\* report.split raises when the report is not a str
SplittingRaises ==
    /\ pc = "Splitting"
    /\ report.t # "str"
    /\ raised' = raised \cup {"Splitting"}
    /\ EvidenceHandler
    /\ UNCHANGED <<pydantic_v2, company_name, country, query, calls, report,
                   extract_arg, draft, result, data_dict, shown_table,
                   shown_refs, escaped>>

\* structured_llm.invoke(report): the model answers with a draft
ExtractingReturns ==
    /\ pc = "Extracting"
    /\ \E d \in PipelineDrafts : draft' = d
    /\ extract_arg' = Str(main_text)
    /\ calls' = [calls EXCEPT !.extract = @ + 1]
    /\ pc' = "Normalizing"
    /\ stages' = Append(stages, "Normalizing")
    /\ UNCHANGED <<pydantic_v2, company_name, country, query, raised, report,
                   main_text, references, result, data_dict, shown_table,
                   shown_refs, notices, escaped>>

\* structured_llm.invoke(report) raises: the except branch is entered
ExtractingRaises ==
    /\ pc = "Extracting"
    /\ extract_arg' = Str(main_text)
    /\ calls' = [calls EXCEPT !.extract = @ + 1]
    /\ raised' = raised \cup {"Extracting"}
    /\ notices' = Append(notices, "error: processing")
    /\ pc' = "Fallback"
    /\ stages' = Append(stages, "Normalizing")
    /\ UNCHANGED <<pydantic_v2, company_name, country, query, report, main_text,
                   references, draft, result, data_dict, shown_table,
                   shown_refs, escaped>>

\* The draft is parsed into a CompanyInformation and returned
Normalizing ==
    /\ pc = "Normalizing"
    /\ Validates(draft, pydantic_v2)
    /\ result' = CompanyInformation(draft, pydantic_v2)
    /\ pc' = "Formatting"
    /\ stages' = Append(stages, "Formatting")
    /\ UNCHANGED <<pydantic_v2, company_name, country, query, calls, raised,
                   report, main_text, references, extract_arg, draft, data_dict,
                   shown_table, shown_refs, notices, escaped>>

\* The draft does not validate: the ValidationError enters the except branch
NormalizingRaises ==
    /\ pc = "Normalizing"
    /\ ~Validates(draft, pydantic_v2)
    /\ raised' = raised \cup {"Normalizing"}
    /\ notices' = Append(notices, "error: processing")
    /\ pc' = "Fallback"
    /\ UNCHANGED <<pydantic_v2, company_name, country, query, stages, calls,
                   report, main_text, references, extract_arg, draft, result,
                   data_dict, shown_table, shown_refs, escaped>>

\* The except branch of final_output_generation builds the fallback record;
\* a ValidationError raised there leaves the function and is caught by main.
Fallback ==
    /\ pc = "Fallback"
    /\ IF Validates(FallbackKwargs, pydantic_v2)
       THEN /\ result' = CompanyInformation(FallbackKwargs, pydantic_v2)
            /\ pc' = "Formatting"
            /\ stages' = Append(stages, "Formatting")
            /\ UNCHANGED <<notices, escaped>>
       ELSE /\ escaped' = TRUE
            /\ notices' = notices \o <<"error: an error occurred",
                                       "warning: try again">>
            /\ pc' = "Done"
            /\ UNCHANGED <<result, stages>>
    /\ UNCHANGED <<pydantic_v2, company_name, country, query, calls, raised,
                   report, main_text, references, extract_arg, draft, data_dict,
                   shown_table, shown_refs>>

\* data_dict = format_company_data_as_dict(result)
Formatting ==
    /\ pc = "Formatting"
    /\ data_dict' = format_company_data_as_dict(result)
    /\ pc' = "Display"
    /\ UNCHANGED <<pydantic_v2, company_name, country, query, stages, calls,
                   raised, report, main_text, references, extract_arg, draft,
                   result, shown_table, shown_refs, notices, escaped>>

\* An exception inside format_company_data_as_dict's try block
FormattingRaises ==
    /\ pc = "Formatting"
    /\ data_dict' = ErrorTable
    /\ raised' = raised \cup {"Formatting"}
    /\ notices' = Append(notices, "error: formatting")
    /\ pc' = "Display"
    /\ UNCHANGED <<pydantic_v2, company_name, country, query, stages, calls,
                   report, main_text, references, extract_arg, draft, result,
                   shown_table, shown_refs, escaped>>

\* st.table(data_dict); st.markdown(references)
Display ==
    /\ pc = "Display"
    /\ shown_table' = data_dict
    /\ shown_refs' = Str(references)
    /\ pc' = "Done"
    /\ UNCHANGED <<pydantic_v2, company_name, country, query, stages, calls,
                   raised, report, main_text, references, extract_arg, draft,
                   result, data_dict, notices, escaped>>

Next ==
    \/ FetchWithoutName
    \/ Fetch
    \/ QueryingReturns
    \/ QueryingRaises
    \/ Splitting
    \/ SplittingRaises
    \/ ExtractingReturns
    \/ ExtractingRaises
    \/ Normalizing
    \/ NormalizingRaises
    \/ Fallback
    \/ Formatting
    \/ FormattingRaises
    \/ Display

Spec == Init /\ [][Next]_vars

(***************************************************************************)
(* generate_evidence on its own: the report just written is any report of  *)
(* up to MaxFrags pieces.                                                  *)
(***************************************************************************)
InitSplit ==
    /\ pc = "Splitting"
    /\ pydantic_v2 = TRUE
    /\ company_name = <<"A", "c", "m", "e">>
    /\ country = <<>>
    /\ query = [template |-> "without_country", company_name |-> company_name,
                country |-> country]
    /\ stages = <<"Querying", "Splitting">>
    /\ calls = [research |-> 1, extract |-> 0]
    /\ raised = {}
    /\ report \in {Str(r) : r \in Reports(MaxFrags)}
    /\ main_text = <<>>
    /\ references = <<>>
    /\ extract_arg = None
    /\ draft = BaseDraft
    /\ result = NoResult
    /\ data_dict = NoTable
    /\ shown_table = NoTable
    /\ shown_refs = None
    /\ notices = <<>>
    /\ escaped = FALSE

NextSplit == Splitting

SpecSplit == InitSplit /\ [][NextSplit]_vars

(***************************************************************************)
(* The record model on its own: the extractor has answered with any draft  *)
(* of up to MaxEdits edited fields.                                        *)
(***************************************************************************)
InitRecord ==
    /\ pc = "Normalizing"
    /\ pydantic_v2 \in BOOLEAN
    /\ company_name = <<"A", "c", "m", "e">>
    /\ country = <<>>
    /\ query = [template |-> "without_country", company_name |-> company_name,
                country |-> country]
    /\ stages = <<"Querying", "Splitting", "Extracting", "Normalizing">>
    /\ calls = [research |-> 1, extract |-> 1]
    /\ raised = {}
    /\ report = Str(<<"x">>)
    /\ main_text = <<"x">>
    /\ references = <<>>
    /\ extract_arg = Str(<<"x">>)
    /\ draft \in Drafts(MaxEdits)
    /\ result = NoResult
    /\ data_dict = NoTable
    /\ shown_table = NoTable
    /\ shown_refs = None
    /\ notices = <<>>
    /\ escaped = FALSE

NextRecord ==
    \/ Normalizing
    \/ NormalizingRaises
    \/ Fallback
    \/ Formatting
    \/ FormattingRaises
    \/ Display

SpecRecord == InitRecord /\ [][NextRecord]_vars

(***************************************************************************)
(* Properties.                                                             *)
(***************************************************************************)
StageIndex(s) ==
    CASE s = "Querying" -> 1
      [] s = "Splitting" -> 2
      [] s = "Extracting" -> 3
      [] s = "Normalizing" -> 4
      [] s = "Formatting" -> 5

Returned == pc \in {"Formatting", "Display", "Done"} /\ ~escaped

\* C1: for a query with a non-empty company name the stages run in the order
\* Querying, Splitting, Extracting, Normalizing, Formatting, each external call
\* is made at most once, no exception escapes the stage that raised it, and the
\* run ends in Done with a result table and a references section displayed,
\* whichever of the calls fail.
C1_AlwaysDisplays ==
    /\ calls.research <= 1
    /\ calls.extract <= 1
    /\ \A i, j \in 1..Len(stages) :
           i < j => StageIndex(stages[i]) < StageIndex(stages[j])
    /\ ~escaped
    /\ pc = "Done" => shown_table # NoTable /\ shown_refs.t = "str"

\* C2: whenever the extraction call raises, final_output_generation returns
\* (does not raise) the fixed record whose text fields all equal the sentinel,
\* whose directors_shareholders is [sentinel] and whose email, phone and
\* website are absent.
C2_FallbackRecord ==
    ("Extracting" \in raised /\ pc # "Fallback") =>
        /\ ~escaped
        /\ \A f \in {"primary_address", "registration_number", "legal_form",
                     "country", "town", "general_details", "ubo", "subsidiaries",
                     "parent_company", "last_reported_revenue"} :
               result[f] = Str(Sentinel)
        /\ result.directors_shareholders = List(<<Sentinel>>)
        /\ result.contact_information =
               [email |-> None, phone |-> None, website |-> None]

\* C3: whenever the report-generation call or a step of splitting raises,
\* generate_evidence returns ("", "No references available due to error"), and
\* the pipeline continues: the extraction call is invoked once, on the empty
\* narrative, formatting follows, and the placeholder is shown as references.
C3_GenerationFailure ==
    (raised \cap {"Querying", "Splitting"} # {}) =>
        /\ main_text = <<>>
        /\ references = NoReferences
        /\ ~escaped
        /\ pc = "Done" =>
               /\ calls.extract = 1
               /\ extract_arg = Str(<<>>)
               /\ "Formatting" \in {stages[i] : i \in 1..Len(stages)}
               /\ shown_refs = Str(NoReferences)

\* The citations as C4 reads the pattern: the label and the URL are each the
\* shortest text that satisfies the delimiters.
ClaimedUrlClose(s, q) ==
    LET spaces == {k \in q..Len(s) : IsSpace(s[k])}
        runEnd == IF spaces = {} THEN Len(s) ELSE Min(spaces) - 1
        closes == {e \in (q + 1)..runEnd : s[e] = ")"}
    IN IF closes = {} THEN 0 ELSE Min(closes)

ClaimedTailClose(s, j) ==
    IF StartsWithAt(s, j, <<"]", "(">>) /\ SchemeEnd(s, j + 2) # 0
    THEN ClaimedUrlClose(s, SchemeEnd(s, j + 2))
    ELSE 0

ClaimedMatchAt(s, i) ==
    IF i > Len(s) \/ s[i] # "[" THEN [at |-> i, close |-> 0, end |-> 0]
    ELSE LET newlines == {k \in (i + 1)..Len(s) : s[k] = "\n"}
             limit == IF newlines = {} THEN Len(s) ELSE Min(newlines)
             js == {j \in (i + 1)..limit : ClaimedTailClose(s, j) # 0}
         IN IF js = {} THEN [at |-> i, close |-> 0, end |-> 0]
            ELSE [at |-> i, close |-> Min(js),
                  end |-> ClaimedTailClose(s, Min(js))]

RECURSIVE ClaimedMatches(_, _)
ClaimedMatches(s, i) ==
    IF i > Len(s) THEN <<>>
    ELSE LET m == ClaimedMatchAt(s, i)
         IN IF m.end = 0 THEN ClaimedMatches(s, i + 1)
            ELSE <<m>> \o ClaimedMatches(s, m.end + 1)

ClaimedCitations(s) ==
    LET ms == ClaimedMatches(s, 1)
    IN [k \in 1..Len(ms) |->
           [source |-> SubSeq(s, ms[k].at + 1, ms[k].close - 1),
            url |-> SubSeq(s, ms[k].close + 2, ms[k].end - 1)]]

\* The working narrative as the claims describe it: the text before the first
\* "## References", trimmed, cut before "## Conclusion" and trimmed again.
ClaimedNarrative(rep) ==
    LET k == Find(rep, RefMarker, 1)
        before == Strip(IF k = 0 THEN rep ELSE SubSeq(rep, 1, k - 1))
        c == Find(before, ConclusionMarker, 1)
    IN IF c = 0 THEN before ELSE Strip(SubSeq(before, 1, c - 1))

\* The trailing references block as the claims describe it: the whole of the
\* text after the first "## References", trimmed.
ClaimedTrailingBlock(rep) ==
    Strip(From(rep, Find(rep, RefMarker, 1) + Len(RefMarker)))

\* C4: with N citations [label](http(s)://url) in the working narrative, the
\* references start with exactly N lines "- <label> <url>", one per citation in
\* document order, label and URL each matched minimally (so two citations
\* written back to back give two lines), and any trailing-block text comes
\* only after them.
C4_OneLinePerCitation ==
    pc = "Extracting" =>
        LET lines == Join(CitationLines(ClaimedCitations(ClaimedNarrative(report.s))),
                          <<"\n">>)
        IN /\ StartsWithAt(references, 1, lines)
           /\ Len(references) > Len(lines) => references[Len(lines) + 1] = "\n"
           /\ ~Contains(report.s, RefMarker) => references = lines

\* C5: the clean narrative returned by the splitter contains no substring that
\* matches the citation pattern.
C5_NoCitationLeft ==
    pc = "Extracting" =>
        \A i \in 1..Len(main_text) : MatchAt(main_text, i).end = 0

\* Two citations were removed and text around them was kept.
C5_Witness ==
    /\ pc = "Extracting"
    /\ Len(FindAll(WorkingNarrative(report.s))) >= 2
    /\ Contains(main_text, <<"[">>)

\* C6: when the working narrative has no citation match, the clean narrative
\* is the trimmed working narrative, and the references are empty without a
\* "## References" marker and exactly the trimmed trailing block with one.
C6_NoCitations ==
    (pc = "Extracting" /\ FindAll(ClaimedNarrative(report.s)) = <<>>) =>
        /\ main_text = ClaimedNarrative(report.s)
        /\ references = IF Contains(report.s, RefMarker)
                        THEN ClaimedTrailingBlock(report.s)
                        ELSE <<>>

\* The field values of a record, as keyword arguments
KwargsOf(rec) ==
    [primary_address |-> rec.primary_address,
     registration_number |-> rec.registration_number,
     legal_form |-> rec.legal_form,
     country |-> rec.country,
     town |-> rec.town,
     registration_date |-> rec.registration_date,
     email |-> rec.contact_information.email,
     phone |-> rec.contact_information.phone,
     website |-> rec.contact_information.website,
     general_details |-> rec.general_details,
     ubo |-> rec.ubo,
     directors_shareholders |-> rec.directors_shareholders,
     subsidiaries |-> rec.subsidiaries,
     parent_company |-> rec.parent_company,
     last_reported_revenue |-> rec.last_reported_revenue]

\* C7: normalization is idempotent: constructing CompanyInformation again from
\* a constructed record's field values yields that record, field by field.
C7_Idempotent ==
    Returned =>
        /\ Validates(KwargsOf(result), pydantic_v2)
        /\ CompanyInformation(KwargsOf(result), pydantic_v2) = result

\* The value each display row shows, in the order of the 15 labels
RowValues(rec) ==
    <<rec.primary_address, rec.registration_number, rec.legal_form, rec.country,
      rec.town, rec.registration_date, rec.contact_information.email,
      rec.contact_information.phone, rec.contact_information.website,
      rec.general_details,
      Str(Join(rec.directors_shareholders.l, <<",", " ">>)),
      rec.ubo, rec.subsidiaries, rec.parent_company, rec.last_reported_revenue>>

\* C8: Fields and Details both have 15 entries, and the Details entry of a
\* field whose value is None, empty or whitespace-only is the sentinel, and
\* otherwise the value trimmed; this holds of every row.
C8_DetailsNormalized ==
    (pc \in {"Display", "Done"} /\ ~escaped /\ "Formatting" \notin raised) =>
        /\ Len(data_dict.Fields) = 15
        /\ Len(data_dict.Details) = 15
        /\ \A i \in 1..15 :
               data_dict.Details[i] =
                   IF RowValues(result)[i].t = "none"
                          \/ Strip(RowValues(result)[i].s) = <<>>
                   THEN Sentinel
                   ELSE Strip(RowValues(result)[i].s)

\* C9: in every constructed ContactInformation the website is absent or begins
\* with "http://" or "https://", and the email is absent or contains both "@"
\* and ".".
C9_ContactInvariant ==
    Returned =>
        LET c == result.contact_information
        IN /\ \/ c.website.t = "none"
              \/ /\ c.website.t = "str"
                 /\ \/ StartsWithAt(c.website.s, 1, Http)
                    \/ StartsWithAt(c.website.s, 1, Https)
           /\ \/ c.email.t = "none"
              \/ /\ c.email.t = "str"
                 /\ Contains(c.email.s, <<"@">>)
                 /\ Contains(c.email.s, <<".">>)

\* C10: when the report contains "## References", the working narrative is the
\* text before its first occurrence, and the whole of the text after that first
\* occurrence, trimmed, is appended to the references after the citation lines.
C10_WholeTrailingBlock ==
    (pc = "Extracting" /\ Contains(report.s, RefMarker)) =>
        LET narrative == ClaimedNarrative(report.s)
        IN /\ main_text = Strip(ReSub(narrative))
           /\ references = Join(CitationLines(FindAll(narrative)), <<"\n">>)
                               \o <<"\n">> \o ClaimedTrailingBlock(report.s)

====
